---- MODULE Spec2Model ----
(***************************************************************************)
(* A model of keras/regularizers.py: the stateless penalties (Regularizer, *)
(* L1L2, EigenvalueRegularizer), the legacy one-time-bind penalties        *)
(* (WeightRegularizer, ActivityRegularizer), the module namespace that     *)
(* deserialize() uses as its registry, and serialize / deserialize / get.  *)
(*                                                                         *)
(* Python values are records with a "kind" field.  Numbers are integers:   *)
(* tensor elements and losses are whole numbers, coefficients are counted  *)
(* in thousandths (0.01 is 10).                                            *)
(***************************************************************************)
EXTENDS Integers, Sequences, FiniteSets, TLC

VARIABLES
    call,   \* the call being made: a record [fn |-> ..., <arguments>]
    ret,    \* what the call returned or raised; Pending before it ran
    inst,   \* the legacy instance the lifecycle specification drives
    binds,  \* history: number of bind calls made on inst so far
    sets    \* history: number of times inst's owner field was assigned

vars == <<call, ret, inst, binds, sets>>

---------------------------------------------------------------------------
(* Bounds *)

MaxElem == 2      \* tensor elements range over -MaxElem..MaxElem
MaxCoef == 3      \* constructor coefficients range over 0..MaxCoef
MaxGain == 2      \* eigenvalue gains k range over 0..MaxGain
MaxLoss == 1      \* incoming losses range over 0..MaxLoss
MaxCalls == 3     \* calls made on one legacy instance
MaxEnergy == 2    \* sum of squares of a matrix given to the power method
FloatxUlp == 2    \* spacing of the backend float type, in thousandths

---------------------------------------------------------------------------
(* Python values *)

None == [kind |-> "None"]
Pending == [kind |-> "pending"]
PyFloat(v) == [kind |-> "float", val |-> v]
PyInt(n) == [kind |-> "int", val |-> n]
PyBool(b) == [kind |-> "bool", b |-> b]
PyStr(s) == [kind |-> "str", s |-> s]
Scalar(v) == [kind |-> "scalar", val |-> v]
Raise(exc, msg) == [kind |-> "raise", exc |-> exc, msg |-> msg]

IsRaise(v) == v.kind = "raise"

\* Python truthiness of a number: `if self.l1:` is taken unless it is zero.
Truthy(v) == v.val # 0

---------------------------------------------------------------------------
(* Tensors and the backend operations the module calls *)

Elems == -MaxElem..MaxElem

Shapes == {<<>>, <<1>>, <<2>>, <<1, 1>>, <<1, 2>>, <<2, 1>>, <<2, 2>>, <<1, 1, 1>>}

RECURSIVE Size(_)
Size(shape) == IF shape = <<>> THEN 1 ELSE Head(shape) * Size(Tail(shape))

Tensor(shape, data) == [kind |-> "tensor", shape |-> shape, data |-> data]

Tensors == UNION {{Tensor(s, d) : d \in [1..Size(s) -> Elems]} : s \in Shapes}

ndim(x) == Len(x.shape)

Abs(n) == IF n < 0 THEN -n ELSE n

RECURSIVE SumSeq(_)
SumSeq(s) == IF s = <<>> THEN 0 ELSE Head(s) + SumSeq(Tail(s))

\* K.abs, K.square, scalar * tensor: elementwise over the flattened data.
KAbs(d) == [i \in 1..Len(d) |-> Abs(d[i])]
KSquare(d) == [i \in 1..Len(d) |-> d[i] * d[i]]
KScale(c, d) == [i \in 1..Len(d) |-> c * d[i]]

\* K.sum: reduction of every element to a backend scalar.
KSum(d) == Scalar(SumSeq(d))

\* K.cast_to_floatx: rounds a non-negative number down to a value the
\* backend float type holds; a value already of that type is unchanged.
cast_to_floatx(v) == [kind |-> "floatx", val |-> (v.val \div FloatxUlp) * FloatxUlp]

\* float(np.float32): widening to a Python float keeps the value.
float(v) == PyFloat(v.val)

\* `regularization += term`: a Python float or backend scalar plus a
\* backend scalar is a new backend scalar.
Add(a, b) == Scalar(a.val + b.val)

\* K.in_train_phase(x, alt): x in the training phase, alt outside it.
in_train_phase(x, alt, training) == IF training THEN x ELSE alt

\* Matrices are sequences of rows.  A rank-2 tensor's data is row-major.
Matrix(x) ==
    [i \in 1..x.shape[1] |-> [j \in 1..x.shape[2] |-> x.data[(i - 1) * x.shape[2] + j]]]

KTranspose(m) == [j \in 1..Len(m[1]) |-> [i \in 1..Len(m) |-> m[i][j]]]

\* K.dot: the matrix product.  (<<>> \o f makes TLC build the rows at once.)
KDot(a, b) ==
    <<>> \o [i \in 1..Len(a) |->
        <<>> \o [j \in 1..Len(b[1]) |->
            SumSeq(<<>> \o [k \in 1..Len(b) |-> a[i][k] * b[k][j]])]]

KOnes(rows, cols) == [i \in 1..rows |-> [j \in 1..cols |-> 1]]

---------------------------------------------------------------------------
(* Regularizer: the base class *)

Instance(cls) == [kind |-> "instance", cls |-> cls]

Regularizer_call(self, x) == PyFloat(0)

---------------------------------------------------------------------------
(* L1L2 *)

L1L2_init(l1, l2) ==
    [kind |-> "instance", cls |-> "L1L2",
     l1 |-> cast_to_floatx(l1), l2 |-> cast_to_floatx(l2)]

\* Fault: the l2 term summed over absolute values instead of squares.
L1L2_call_abs_only(self, x) ==
    LET r0 == PyFloat(0)
        r1 == IF Truthy(self.l1)
              THEN Add(r0, KSum(KScale(self.l1.val, KAbs(x.data))))
              ELSE r0
    IN  IF Truthy(self.l2)
        THEN Add(r1, KSum(KScale(self.l2.val, KAbs(x.data))))
        ELSE r1

L1L2_call(self, x) ==
    LET r0 == PyFloat(0)
        r1 == IF Truthy(self.l1)
              THEN Add(r0, KSum(KScale(self.l1.val, KAbs(x.data))))
              ELSE r0
    IN  IF Truthy(self.l2)
        THEN Add(r1, KSum(KScale(self.l2.val, KSquare(x.data))))
        ELSE r1

L1L2_get_config(self) == ("l1" :> float(self.l1)) @@ ("l2" :> float(self.l2))

---------------------------------------------------------------------------
(* EigenvalueRegularizer *)

power == 9

EigenvalueRegularizer_init(k) ==
    [kind |-> "instance", cls |-> "EigenvalueRegularizer", k |-> k]

RankError ==
    Raise("ValueError",
          <<"EigenvalueRegularizer is only available for tensors of rank 2.">>)

RECURSIVE Multiply(_, _, _)
Multiply(covariance, v, n) ==
    IF n = 0 THEN v ELSE Multiply(covariance, KDot(covariance, v), n - 1)

\* Fault: the loop run `power` times, one multiplication too many.
power_method_extra(covariance) ==
    LET o == KOnes(Len(covariance), 1)
        main_eigenvect == Multiply(covariance, KDot(covariance, o), power)
    IN  [main_eigenvect |-> main_eigenvect,
         covariance_d |-> KDot(covariance, main_eigenvect)]

\* The power method: main_eigenvect after the first multiplication and the
\* loop, and covariance_d, one multiplication further.
power_method(covariance) ==
    LET o == KOnes(Len(covariance), 1)
        main_eigenvect == Multiply(covariance, KDot(covariance, o), power - 1)
    IN  [main_eigenvect |-> main_eigenvect,
         covariance_d |-> KDot(covariance, main_eigenvect)]

\* main_eigenval is a quotient of two 1x1 products, kept as a fraction.
main_eigenval(pm) ==
    [num |-> KDot(KTranspose(pm.covariance_d), pm.main_eigenvect)[1][1],
     den |-> KDot(KTranspose(pm.main_eigenvect), pm.main_eigenvect)[1][1]]

\* Fault: the rank test of the superseded implementation, ndim > 2, under
\* which a tensor of rank below 2 reaches the shape unpacking.
EigenvalueRegularizer_call_dense_check(self, x) ==
    IF ndim(x) > 2
    THEN RankError
    ELSE IF ndim(x) < 2
    THEN Raise("ValueError", <<"not enough values to unpack">>)
    ELSE LET covariance == KDot(KTranspose(Matrix(x)), Matrix(x))
         IN  [kind |-> "eigen_scalar", gain |-> self.k,
              sqrt_of |-> main_eigenval(power_method(covariance))]

\* The result is K.sum((main_eigenval ** 0.5) * k): the gain times the
\* square root of the fraction, kept symbolic.
EigenvalueRegularizer_call(self, x) ==
    IF ndim(x) # 2
    THEN RankError
    ELSE LET covariance == KDot(KTranspose(Matrix(x)), Matrix(x))
         IN  [kind |-> "eigen_scalar", gain |-> self.k,
              sqrt_of |-> main_eigenval(power_method(covariance))]

---------------------------------------------------------------------------
(* WeightRegularizer and ActivityRegularizer: the legacy bound penalties *)

ReuseError(msg) == Raise("Exception", <<msg>>)
UnboundError(msg) == Raise("Exception", <<msg>>)

WeightReuse ==
    ReuseError("Regularizers cannot be reused. Instantiate one regularizer per layer.")
WeightUnbound ==
    UnboundError("Need to call set_param on WeightRegularizer instance before calling the instance.")
ActivityReuse == ReuseError("Regularizers cannot be reused")
ActivityUnbound ==
    UnboundError("Need to call set_layer on ActivityRegularizer instance before calling the instance.")

WeightRegularizer_init(l1, l2) ==
    [kind |-> "instance", cls |-> "WeightRegularizer",
     l1 |-> cast_to_floatx(l1), l2 |-> cast_to_floatx(l2), p |-> None]

\* Fault: set_param without its reuse guard.
set_param_rebind(self, p) ==
    [self |-> [self EXCEPT !.p = p], ret |-> None, assigned |-> TRUE]

\* set_param returns the instance as it leaves it and what the call gave.
set_param(self, p) ==
    IF self.p # None
    THEN [self |-> self, ret |-> WeightReuse, assigned |-> FALSE]
    ELSE [self |-> [self EXCEPT !.p = p], ret |-> None, assigned |-> TRUE]

\* Fault: `+=` updating the incoming loss in place, so that both
\* arguments of in_train_phase are the penalised value.
WeightRegularizer_call_inplace(self, loss, training) ==
    IF self.p = None
    THEN WeightUnbound
    ELSE LET r0 == loss
             r1 == IF Truthy(self.l1)
                   THEN Add(r0, KSum(KScale(self.l1.val, KAbs(self.p.data))))
                   ELSE r0
             regularized_loss ==
                   IF Truthy(self.l2)
                   THEN Add(r1, KSum(KScale(self.l2.val, KSquare(self.p.data))))
                   ELSE r1
         IN  in_train_phase(regularized_loss, regularized_loss, training)

\* `regularized_loss = loss` names the incoming loss; each `+=` on a
\* backend scalar makes a new one, so `loss` still names the incoming value.
WeightRegularizer_call(self, loss, training) ==
    IF self.p = None
    THEN WeightUnbound
    ELSE LET r0 == loss
             r1 == IF Truthy(self.l1)
                   THEN Add(r0, KSum(KScale(self.l1.val, KAbs(self.p.data))))
                   ELSE r0
             regularized_loss ==
                   IF Truthy(self.l2)
                   THEN Add(r1, KSum(KScale(self.l2.val, KSquare(self.p.data))))
                   ELSE r1
         IN  in_train_phase(regularized_loss, loss, training)

ActivityRegularizer_init(l1, l2) ==
    [kind |-> "instance", cls |-> "ActivityRegularizer",
     l1 |-> cast_to_floatx(l1), l2 |-> cast_to_floatx(l2), layer |-> None]

set_layer(self, layer) ==
    IF self.layer # None
    THEN [self |-> self, ret |-> ActivityReuse, assigned |-> FALSE]
    ELSE [self |-> [self EXCEPT !.layer = layer], ret |-> None, assigned |-> TRUE]

\* A layer is its outputs, one per inbound node: get_output_at(i) is
\* outputs[i].
Layer(outputs) == [kind |-> "layer", outputs |-> outputs]

RECURSIVE ActivityLoop(_, _, _)
ActivityLoop(self, regularized_loss, outputs) ==
    IF outputs = <<>>
    THEN regularized_loss
    ELSE LET output == Head(outputs)
             r1 == IF Truthy(self.l1)
                   THEN Add(regularized_loss, KSum(KScale(self.l1.val, KAbs(output.data))))
                   ELSE regularized_loss
             r2 == IF Truthy(self.l2)
                   THEN Add(r1, KSum(KScale(self.l2.val, KSquare(output.data))))
                   ELSE r1
         IN  ActivityLoop(self, r2, Tail(outputs))

ActivityRegularizer_call(self, loss, training) ==
    IF self.layer = None
    THEN ActivityUnbound
    ELSE in_train_phase(ActivityLoop(self, loss, self.layer.outputs), loss, training)

\* get_config of the two legacy classes: the class name under 'name'.
Legacy_get_config(self) ==
    ("name" :> PyStr(self.cls)) @@ ("l1" :> float(self.l1)) @@ ("l2" :> float(self.l2))

---------------------------------------------------------------------------
(* The module namespace: what globals() holds once the module has run *)

Obj(kind, name, line) == [kind |-> kind, name |-> name, line |-> line]

\* Every top-level import, class and def, in the order the module runs
\* them.  A later binding of a name replaces an earlier one.
ModuleBindings ==
    << Obj("feature", "absolute_import", 3),
       Obj("feature", "division", 4),
       Obj("feature", "print_function", 5),
       Obj("module", "six", 7),
       Obj("module", "K", 8),
       Obj("function", "serialize_keras_object", 9),
       Obj("function", "deserialize_keras_object", 10),
       Obj("class", "Regularizer", 13),
       Obj("class", "L1L2", 25),
       Obj("function", "l1", 53),
       Obj("function", "l2", 57),
       Obj("function", "l1_l2", 61),
       Obj("function", "serialize", 65),
       Obj("function", "deserialize", 69),
       Obj("function", "get", 76),
       Obj("class", "EigenvalueRegularizer", 89),
       Obj("class", "WeightRegularizer", 159),
       Obj("class", "ActivityRegularizer", 196),
       Obj("function", "l1", 229),
       Obj("function", "l2", 233),
       Obj("function", "l1l2", 237),
       Obj("function", "activity_l1", 241),
       Obj("function", "activity_l2", 245),
       Obj("function", "activity_l1l2", 249) >>

Last(S) == CHOOSE m \in S : \A k \in S : k <= m

globals ==
    [n \in {ModuleBindings[i].name : i \in DOMAIN ModuleBindings} |->
        ModuleBindings[Last({i \in DOMAIN ModuleBindings : ModuleBindings[i].name = n})]]

\* The names the module defines as regularizer classes and aliases.
RegularizerNames ==
    {"Regularizer", "L1L2", "EigenvalueRegularizer", "WeightRegularizer",
     "ActivityRegularizer", "l1", "l2", "l1_l2", "l1l2",
     "activity_l1", "activity_l2", "activity_l1l2"}

\* A class the caller defines and passes in custom_objects.
UserClass(name) == [kind |-> "user_class", name |-> name]

\* A penalty function the caller defines.
UserFunction(name) == [kind |-> "user_function", name |-> name]

callable(v) ==
    v.kind \in {"instance", "class", "function", "user_class", "user_function"}

\* str() of an identifier.
str(v) ==
    CASE v.kind = "str" -> v.s
      [] v.kind = "int" -> ToString(v.val)
      [] v.kind = "bool" -> IF v.b THEN "True" ELSE "False"
      [] v.kind = "None" -> "None"
      [] OTHER -> "<object>"

---------------------------------------------------------------------------
(* Calling an object with a config as its keyword arguments *)

DefaultL == 10    \* the aliases' default coefficient, 0.01

EmptyConfig == <<>>

BadCall == Raise("TypeError", <<"arguments do not match the signature">>)
NotCallable == Raise("TypeError", <<"object is not callable">>)

Accepts(kwargs, params, required) ==
    DOMAIN kwargs \subseteq params /\ required \subseteq DOMAIN kwargs

Arg(kwargs, name, default) == IF name \in DOMAIN kwargs THEN kwargs[name] ELSE default

has_get_config(cls) == cls \in {"L1L2", "WeightRegularizer", "ActivityRegularizer"}

get_config(self) ==
    IF self.cls = "L1L2" THEN L1L2_get_config(self) ELSE Legacy_get_config(self)

\* serialize_keras_object: the class name and the instance's own
\* parameter mapping; an instance with no get_config has none to give.
serialize_keras_object(instance) ==
    IF instance.kind = "instance" /\ has_get_config(instance.cls)
    THEN [kind |-> "dict", class_name |-> instance.cls, config |-> get_config(instance)]
    ELSE Raise("ValueError", <<"Cannot serialize">>)

serialize(regularizer) == serialize_keras_object(regularizer)

RECURSIVE get(_)
RECURSIVE deserialize(_, _)
RECURSIVE deserialize_keras_object(_, _, _, _)

call_function(obj, kwargs) ==
    CASE obj.line = 53 ->
           IF Accepts(kwargs, {"l"}, {})
           THEN L1L2_init(Arg(kwargs, "l", PyFloat(DefaultL)), PyFloat(0))
           ELSE BadCall
      [] obj.line = 57 ->
           IF Accepts(kwargs, {"l"}, {})
           THEN L1L2_init(PyFloat(0), Arg(kwargs, "l", PyFloat(DefaultL)))
           ELSE BadCall
      [] obj.line = 61 ->
           IF Accepts(kwargs, {"l1", "l2"}, {})
           THEN L1L2_init(Arg(kwargs, "l1", PyFloat(DefaultL)),
                          Arg(kwargs, "l2", PyFloat(DefaultL)))
           ELSE BadCall
      [] obj.line = 229 ->
           IF Accepts(kwargs, {"l"}, {})
           THEN WeightRegularizer_init(Arg(kwargs, "l", PyFloat(DefaultL)), PyFloat(0))
           ELSE BadCall
      [] obj.line = 233 ->
           IF Accepts(kwargs, {"l"}, {})
           THEN WeightRegularizer_init(PyFloat(0), Arg(kwargs, "l", PyFloat(DefaultL)))
           ELSE BadCall
      [] obj.line = 237 ->
           IF Accepts(kwargs, {"l1", "l2"}, {})
           THEN WeightRegularizer_init(Arg(kwargs, "l1", PyFloat(DefaultL)),
                                       Arg(kwargs, "l2", PyFloat(DefaultL)))
           ELSE BadCall
      [] obj.line = 241 ->
           IF Accepts(kwargs, {"l"}, {})
           THEN ActivityRegularizer_init(Arg(kwargs, "l", PyFloat(DefaultL)), PyFloat(0))
           ELSE BadCall
      [] obj.line = 245 ->
           IF Accepts(kwargs, {"l"}, {})
           THEN ActivityRegularizer_init(PyFloat(0), Arg(kwargs, "l", PyFloat(DefaultL)))
           ELSE BadCall
      [] obj.line = 249 ->
           IF Accepts(kwargs, {"l1", "l2"}, {})
           THEN ActivityRegularizer_init(Arg(kwargs, "l1", PyFloat(DefaultL)),
                                         Arg(kwargs, "l2", PyFloat(DefaultL)))
           ELSE BadCall
      [] obj.line = 65 ->
           IF Accepts(kwargs, {"regularizer"}, {"regularizer"})
           THEN serialize(kwargs.regularizer)
           ELSE BadCall
      [] obj.line = 69 ->
           IF Accepts(kwargs, {"config", "custom_objects"}, {"config"})
           THEN deserialize(kwargs.config, Arg(kwargs, "custom_objects", None))
           ELSE BadCall
      [] obj.line = 76 ->
           IF Accepts(kwargs, {"identifier"}, {"identifier"})
           THEN get(kwargs.identifier)
           ELSE BadCall
      [] obj.line = 9 ->
           IF Accepts(kwargs, {"instance"}, {"instance"})
           THEN serialize_keras_object(kwargs.instance)
           ELSE BadCall
      [] obj.line = 10 ->
           IF Accepts(kwargs, {"identifier", "module_objects", "custom_objects",
                               "printable_module_name"}, {"identifier"})
           THEN deserialize_keras_object(kwargs.identifier,
                                         Arg(kwargs, "module_objects", EmptyConfig),
                                         Arg(kwargs, "custom_objects", None),
                                         Arg(kwargs, "printable_module_name", "object"))
           ELSE BadCall

\* Regularizer.from_config: the class called with config as its keyword
\* arguments, by the class's __init__.
from_config(cls, config) ==
    CASE cls.name = "Regularizer" ->
           IF Accepts(config, {}, {}) THEN Instance("Regularizer") ELSE BadCall
      [] cls.name = "L1L2" ->
           IF Accepts(config, {"l1", "l2"}, {})
           THEN L1L2_init(Arg(config, "l1", PyFloat(0)), Arg(config, "l2", PyFloat(0)))
           ELSE BadCall
      [] cls.name = "EigenvalueRegularizer" ->
           IF Accepts(config, {"k"}, {"k"})
           THEN EigenvalueRegularizer_init(config.k)
           ELSE BadCall
      [] cls.name = "WeightRegularizer" ->
           IF Accepts(config, {"l1", "l2"}, {})
           THEN WeightRegularizer_init(Arg(config, "l1", PyFloat(0)),
                                       Arg(config, "l2", PyFloat(0)))
           ELSE BadCall
      [] cls.name = "ActivityRegularizer" ->
           IF Accepts(config, {"l1", "l2"}, {})
           THEN ActivityRegularizer_init(Arg(config, "l1", PyFloat(0)),
                                         Arg(config, "l2", PyFloat(0)))
           ELSE BadCall

\* What the caller's class builds from the keyword arguments it is given.
UserInstance(cls, config) ==
    [kind |-> "instance", cls |-> "user", name |-> cls.name, config |-> config]

\* The object found under class_name, constructed with config as its
\* keyword arguments.
construct(obj, config) ==
    CASE obj.kind = "class" -> from_config(obj, config)
      [] obj.kind = "function" -> call_function(obj, config)
      [] obj.kind = "user_class" -> UserInstance(obj, config)
      [] OTHER -> NotCallable

\* custom_objects is None or a mapping from names to the caller's objects.
CustomObjects(map) == [kind |-> "custom_objects", map |-> map]

deserialize_keras_object(config, module_objects, custom_objects, printable_module_name) ==
    IF config.kind # "dict"
    THEN Raise("ValueError", <<"Could not interpret serialized ", printable_module_name>>)
    ELSE IF custom_objects # None /\ config.class_name \in DOMAIN custom_objects.map
    THEN construct(custom_objects.map[config.class_name], config.config)
    ELSE IF config.class_name \in DOMAIN module_objects
    THEN construct(module_objects[config.class_name], config.config)
    ELSE Raise("ValueError", <<"Unknown ", printable_module_name, ": ", config.class_name>>)

deserialize(config, custom_objects) ==
    deserialize_keras_object(config, globals, custom_objects, "regularizer")

Dict(class_name, config) == [kind |-> "dict", class_name |-> class_name, config |-> config]

\* Fault: None resolved to the null Regularizer instead of to None.
get_null_object(identifier) ==
    IF identifier = None
    THEN Instance("Regularizer")
    ELSE IF identifier.kind = "dict"
    THEN deserialize(identifier, None)
    ELSE IF identifier.kind = "str"
    THEN deserialize(Dict(str(identifier), EmptyConfig), None)
    ELSE IF callable(identifier)
    THEN identifier
    ELSE Raise("ValueError",
               <<"Could not interpret regularizer identifier: ", str(identifier)>>)

\* Fault: an identifier of no known kind resolved to None without an error.
get_silent(identifier) ==
    IF identifier = None
    THEN None
    ELSE IF identifier.kind = "dict"
    THEN deserialize(identifier, None)
    ELSE IF identifier.kind = "str"
    THEN deserialize(Dict(str(identifier), EmptyConfig), None)
    ELSE IF callable(identifier)
    THEN identifier
    ELSE None

get(identifier) ==
    IF identifier = None
    THEN None
    ELSE IF identifier.kind = "dict"
    THEN deserialize(identifier, None)
    ELSE IF identifier.kind = "str"
    THEN deserialize(Dict(str(identifier), EmptyConfig), None)
    ELSE IF callable(identifier)
    THEN identifier
    ELSE Raise("ValueError",
               <<"Could not interpret regularizer identifier: ", str(identifier)>>)

\* regularizer(x): the __call__ of the instance's class.  A legacy
\* instance takes the incoming loss as its argument.
call_instance(r, x, training) ==
    CASE r.kind = "instance" /\ r.cls = "Regularizer" -> Regularizer_call(r, x)
      [] r.kind = "instance" /\ r.cls = "L1L2" -> L1L2_call(r, x)
      [] r.kind = "instance" /\ r.cls = "EigenvalueRegularizer" ->
           EigenvalueRegularizer_call(r, x)
      [] r.kind = "instance" /\ r.cls = "WeightRegularizer" ->
           WeightRegularizer_call(r, x, training)
      [] r.kind = "instance" /\ r.cls = "ActivityRegularizer" ->
           ActivityRegularizer_call(r, x, training)
      [] OTHER -> NotCallable

---------------------------------------------------------------------------
(* The calls a client makes *)

Coefs == {PyFloat(c) : c \in 0..MaxCoef}
Gains == {PyFloat(k) : k \in 0..MaxGain}
Losses == {Scalar(v) : v \in 0..MaxLoss}

L1L2Instances == {L1L2_init(a, b) : a \in Coefs, b \in Coefs}
EigenvalueInstances == {EigenvalueRegularizer_init(k) : k \in Gains}
StatelessInstances == {Instance("Regularizer")} \cup L1L2Instances \cup EigenvalueInstances
LegacyInstances ==
    {WeightRegularizer_init(a, b) : a \in Coefs, b \in Coefs}
        \cup {ActivityRegularizer_init(a, b) : a \in Coefs, b \in Coefs}

Energy(x) == SumSeq(KSquare(x.data))

\* Matrices whose ten products with the ones vector stay exact.
EigenvalueInputs == {x \in Tensors : ndim(x) = 2 => Energy(x) <= MaxEnergy}

ClassNames == DOMAIN globals \cup {"not_a_real_regularizer", "MyRegularizer"}

ConfigValues(key) ==
    IF key = "identifier" THEN {None, PyInt(42)} ELSE {PyFloat(0), PyFloat(MaxCoef)}

ConfigKeys == {"l1", "l2", "l", "k", "identifier"}

Configs ==
    {EmptyConfig}
        \cup UNION {{(k :> v) : v \in ConfigValues(k)} : k \in ConfigKeys}
        \cup UNION {{(j :> v) @@ (k :> w) : v \in ConfigValues(j), w \in ConfigValues(k)} :
                        j \in ConfigKeys, k \in ConfigKeys \ {"identifier"}}

Dicts == {Dict(n, c) : n \in ClassNames, c \in Configs}

Overrides ==
    {None,
     CustomObjects("MyRegularizer" :> UserClass("MyRegularizer")),
     CustomObjects("L1L2" :> UserClass("MyL1L2"))}

Identifiers ==
    {None} \cup Dicts \cup {PyStr(n) : n \in ClassNames}
        \cup {UserFunction("my_penalty"), globals["L1L2"], globals["l1_l2"]}
        \cup L1L2Instances
        \cup {PyInt(42), PyInt(0), PyInt(-7), PyBool(TRUE), PyBool(FALSE)}

AliasNames == {"l1", "l2", "l1_l2", "L1L2"}

Calls ==
    {[fn |-> "Regularizer.__call__", self |-> Instance("Regularizer"), x |-> x] :
        x \in Tensors}
    \cup {[fn |-> "L1L2.__call__", self |-> r, x |-> x] : r \in L1L2Instances, x \in Tensors}
    \cup {[fn |-> "EigenvalueRegularizer.__call__", self |-> r, x |-> x] :
              r \in EigenvalueInstances, x \in EigenvalueInputs}
    \cup {[fn |-> "serialize", regularizer |-> r] : r \in StatelessInstances \cup LegacyInstances}
    \cup {[fn |-> "deserialize", config |-> c, custom_objects |-> o] :
              c \in Dicts, o \in Overrides}
    \cup {[fn |-> "roundtrip", regularizer |-> r] : r \in StatelessInstances}
    \cup {[fn |-> "get", identifier |-> i] : i \in Identifiers}
    \cup {[fn |-> "get_call", identifier |-> PyStr(n), x |-> x] :
              n \in AliasNames, x \in Tensors}

Init ==
    /\ call \in Calls
    /\ ret = Pending
    /\ inst = None
    /\ binds = 0
    /\ sets = 0

RegularizerCall ==
    /\ call.fn = "Regularizer.__call__"
    /\ ret = Pending
    /\ ret' = Regularizer_call(call.self, call.x)
    /\ UNCHANGED <<call, inst, binds, sets>>

L1L2Call ==
    /\ call.fn = "L1L2.__call__"
    /\ ret = Pending
    /\ ret' = L1L2_call(call.self, call.x)
    /\ UNCHANGED <<call, inst, binds, sets>>

EigenvalueCall ==
    /\ call.fn = "EigenvalueRegularizer.__call__"
    /\ ret = Pending
    /\ ret' = EigenvalueRegularizer_call(call.self, call.x)
    /\ UNCHANGED <<call, inst, binds, sets>>

Serialize ==
    /\ call.fn = "serialize"
    /\ ret = Pending
    /\ ret' = serialize(call.regularizer)
    /\ UNCHANGED <<call, inst, binds, sets>>

Deserialize ==
    /\ call.fn = "deserialize"
    /\ ret = Pending
    /\ ret' = deserialize(call.config, call.custom_objects)
    /\ UNCHANGED <<call, inst, binds, sets>>

\* deserialize(serialize(r)); serialize raising ends the expression.
RoundTrip ==
    /\ call.fn = "roundtrip"
    /\ ret = Pending
    /\ ret' = LET config == serialize(call.regularizer)
              IN  IF IsRaise(config) THEN config ELSE deserialize(config, None)
    /\ UNCHANGED <<call, inst, binds, sets>>

Get ==
    /\ call.fn = "get"
    /\ ret = Pending
    /\ ret' = get(call.identifier)
    /\ UNCHANGED <<call, inst, binds, sets>>

\* get(identifier)(x): the regularizer got, and what applying it gives in
\* either phase.
GetCall ==
    /\ call.fn = "get_call"
    /\ ret = Pending
    /\ \E training \in BOOLEAN :
          ret' = LET got == get(call.identifier)
                 IN  [kind |-> "applied", got |-> got,
                      value |-> IF IsRaise(got) THEN got
                                ELSE call_instance(got, call.x, training)]
    /\ UNCHANGED <<call, inst, binds, sets>>

Next ==
    \/ RegularizerCall
    \/ L1L2Call
    \/ EigenvalueCall
    \/ Serialize
    \/ Deserialize
    \/ RoundTrip
    \/ Get
    \/ GetCall

Spec == Init /\ [][Next]_vars

---------------------------------------------------------------------------
(* The lifecycle of one legacy instance *)

Params == {x \in Tensors : x.shape = <<2>>}

\* Layer outputs: one element, the extremes and zero.
Outputs == {Tensor(<<1>>, <<e>>) : e \in {-MaxElem, 0, MaxElem}}

Layers ==
    {Layer(<<>>)} \cup {Layer(<<a>>) : a \in Outputs}
        \cup {Layer(<<a, b>>) : a \in Outputs, b \in Outputs}

LegacyInit ==
    /\ inst \in LegacyInstances
    /\ call = [fn |-> "__init__"]
    /\ ret = None
    /\ binds = 0
    /\ sets = 0

Bind(fn, owner, result) ==
    /\ binds < MaxCalls
    /\ call' = [fn |-> fn, owner |-> owner]
    /\ inst' = result.self
    /\ ret' = result.ret
    /\ binds' = binds + 1
    /\ sets' = IF result.assigned THEN sets + 1 ELSE sets

SetParam ==
    /\ inst.cls = "WeightRegularizer"
    /\ \E p \in Params : Bind("set_param", p, set_param(inst, p))

SetLayer ==
    /\ inst.cls = "ActivityRegularizer"
    /\ \E layer \in Layers : Bind("set_layer", layer, set_layer(inst, layer))

WeightCall ==
    /\ inst.cls = "WeightRegularizer"
    /\ \E loss \in Losses, training \in BOOLEAN :
          /\ call' = [fn |-> "WeightRegularizer.__call__", loss |-> loss,
                      training |-> training]
          /\ ret' = WeightRegularizer_call(inst, loss, training)
    /\ UNCHANGED <<inst, binds, sets>>

ActivityCall ==
    /\ inst.cls = "ActivityRegularizer"
    /\ \E loss \in Losses, training \in BOOLEAN :
          /\ call' = [fn |-> "ActivityRegularizer.__call__", loss |-> loss,
                      training |-> training]
          /\ ret' = ActivityRegularizer_call(inst, loss, training)
    /\ UNCHANGED <<inst, binds, sets>>

LegacyNext ==
    \/ SetParam
    \/ SetLayer
    \/ WeightCall
    \/ ActivityCall

LegacySpec == LegacyInit /\ [][LegacyNext]_vars

---------------------------------------------------------------------------
(* Properties *)

Returned(fn) == call.fn = fn /\ ret # Pending

\* Sums written out over the indices, apart from the backend operations.
RECURSIVE SumAbs(_, _)
SumAbs(d, n) ==
    IF n = 0 THEN 0 ELSE SumAbs(d, n - 1) + (IF d[n] < 0 THEN -d[n] ELSE d[n])

RECURSIVE SumSquares(_, _)
SumSquares(d, n) == IF n = 0 THEN 0 ELSE SumSquares(d, n - 1) + d[n] * d[n]

L1L2Penalty(l1, l2, x) ==
    l1 * SumAbs(x.data, Len(x.data)) + l2 * SumSquares(x.data, Len(x.data))

\* C1: L1L2 with stored coefficients l1, l2 applied to x returns
\* l1*sum(abs(x)) + l2*sum(square(x)); a term whose coefficient is 0 is
\* skipped, so with both 0 the result is the Python float 0 and no backend
\* value is produced.
C1_L1L2Penalty ==
    Returned("L1L2.__call__") =>
        LET l1 == call.self.l1.val
            l2 == call.self.l2.val
        IN  /\ ret.val = L1L2Penalty(l1, l2, call.x)
            /\ (ret.kind = "float") = (l1 = 0 /\ l2 = 0)
            /\ (l1 = 0 /\ l2 = 0) => ret = PyFloat(0)

C1_Witness ==
    /\ Returned("L1L2.__call__")
    /\ call.self.l1.val > 0
    /\ call.self.l2.val > 0
    /\ \E i \in DOMAIN call.x.data : call.x.data[i] < -1
    /\ ret.val > 0

PenaltyInputs(r) ==
    IF r.cls = "EigenvalueRegularizer" THEN EigenvalueInputs ELSE Tensors

\* C2: for every stateless regularizer r, deserialize(serialize(r))
\* succeeds and gives a regularizer with r's parameters and r's penalty on
\* every tensor.
C2_RoundTrip ==
    Returned("roundtrip") =>
        /\ ~IsRaise(ret)
        /\ ret = call.regularizer
        /\ \A x \in PenaltyInputs(call.regularizer) :
              call_instance(ret, x, TRUE) = call_instance(call.regularizer, x, TRUE)

\* C3: get("l2") is the stateless L1L2 with l1 = 0 and l2 = 0.01, and
\* applied to x with no bind step returns 0.01 * sum(square(x)); get("l1")
\* is the L1L2 with l1 = 0.01 and l2 = 0.
C3_GetAlias ==
    (Returned("get_call") /\ call.identifier.s \in {"l1", "l2"}) =>
        LET d == cast_to_floatx(PyFloat(DefaultL))
            zero == cast_to_floatx(PyFloat(0))
            l1 == IF call.identifier.s = "l1" THEN d ELSE zero
            l2 == IF call.identifier.s = "l2" THEN d ELSE zero
        IN  /\ ret.got = [kind |-> "instance", cls |-> "L1L2", l1 |-> l1, l2 |-> l2]
            /\ ret.value = Scalar(L1L2Penalty(l1.val, l2.val, call.x))

\* C4: get(None) is None; get of a mapping is deserialize of it; get of a
\* string s is deserialize of {class_name: s, config: {}}; get of any
\* other callable is that callable itself.
C4_GetResolves ==
    Returned("get") =>
        LET i == call.identifier
        IN  /\ i = None => ret = None
            /\ i.kind = "dict" => ret = deserialize(i, None)
            /\ i.kind = "str" =>
                  ret = deserialize([kind |-> "dict", class_name |-> i.s,
                                     config |-> <<>>], None)
            /\ i.kind \in {"instance", "class", "function", "user_function"} => ret = i

C4_Witness ==
    /\ Returned("get")
    /\ call.identifier = UserFunction("my_penalty")
    /\ ret = UserFunction("my_penalty")

\* The text Python prints for the identifiers that are no regularizer.
Repr(i) ==
    CASE i = PyInt(42) -> "42"
      [] i = PyInt(0) -> "0"
      [] i = PyInt(-7) -> "-7"
      [] i = PyBool(TRUE) -> "True"
      [] i = PyBool(FALSE) -> "False"

\* C5: get of an identifier that is neither None, a mapping, a string nor
\* a callable raises ValueError with the identifier's text in the message,
\* and returns nothing.
C5_InvalidIdentifier ==
    (Returned("get") /\ call.identifier.kind \in {"int", "bool"}) =>
        /\ ret.kind = "raise"
        /\ ret.exc = "ValueError"
        /\ \E k \in DOMAIN ret.msg : ret.msg[k] = Repr(call.identifier)

C5_Witness ==
    /\ Returned("get")
    /\ call.identifier = PyInt(42)
    /\ ret = Raise("ValueError", <<"Could not interpret regularizer identifier: ", "42">>)

\* C6: deserialize takes class_name from the overrides first, then from
\* the built-in regularizer classes and aliases, and for any other
\* class_name raises the unknown-regularizer error and constructs nothing.
C6_DeserializeLookup ==
    Returned("deserialize") =>
        LET n == call.config.class_name
            o == call.custom_objects
            overridden == o # None /\ n \in DOMAIN o.map
        IN  /\ overridden => ret = UserInstance(o.map[n], call.config.config)
            /\ (~overridden /\ n \in RegularizerNames) =>
                  ret = construct(globals[n], call.config.config)
            /\ (~overridden /\ n \notin RegularizerNames) =>
                  ret = Raise("ValueError", <<"Unknown ", "regularizer", ": ", n>>)

Owner(i) == IF i.cls = "WeightRegularizer" THEN i.p ELSE i.layer

C8_WeightLoss ==
    (call.fn = "WeightRegularizer.__call__" /\ inst.p # None) =>
        IF call.training
        THEN ret = Scalar(call.loss.val + L1L2Penalty(inst.l1.val, inst.l2.val, inst.p))
        ELSE ret = call.loss

C8_Witness ==
    /\ call.fn = "WeightRegularizer.__call__"
    /\ inst.p # None
    /\ ~call.training
    /\ L1L2Penalty(inst.l1.val, inst.l2.val, inst.p) > 0
    /\ ret = call.loss

\* C9: EigenvalueRegularizer applied to a tensor of rank other than 2
\* raises the ValueError that names the rank-2 requirement; applied to a
\* tensor of rank 2 it does not raise.
C9_RankCheck ==
    Returned("EigenvalueRegularizer.__call__") =>
        IF Len(call.x.shape) = 2
        THEN ret.kind = "eigen_scalar"
        ELSE /\ ret.kind = "raise"
             /\ ret.exc = "ValueError"
             /\ ret.msg = <<"EigenvalueRegularizer is only available for tensors of rank 2.">>

C9_Witness ==
    /\ Returned("EigenvalueRegularizer.__call__")
    /\ Len(call.x.shape) = 1
    /\ ret.kind = "raise"

\* The Gram matrix and its powers, as matrices.
Gram(x) ==
    LET m == Matrix(x)
    IN  [i \in 1..x.shape[2] |->
            [j \in 1..x.shape[2] |->
                SumSeq([r \in 1..x.shape[1] |-> m[r][i] * m[r][j]])]]

RECURSIVE MatPow(_, _)
MatPow(c, n) == IF n = 1 THEN c ELSE KDot(MatPow(c, n - 1), c)

\* v = C^9 * ones and Cv = C * v.
NineTimes(x) == KDot(MatPow(Gram(x), 9), KOnes(x.shape[2], 1))
TenTimes(x) == KDot(Gram(x), NineTimes(x))

Inner(a, b) == SumSeq([i \in 1..Len(a) |-> a[i][1] * b[i][1]])

\* C10 as stated: the estimate is (Cv)t.(Cv) / (vt.v), with v the ones
\* vector multiplied by C nine times and Cv one multiplication further.
C10_Original ==
    (Returned("EigenvalueRegularizer.__call__") /\ Len(call.x.shape) = 2) =>
        /\ ret.sqrt_of.den = Inner(NineTimes(call.x), NineTimes(call.x))
        /\ ret.sqrt_of.num = Inner(TenTimes(call.x), TenTimes(call.x))

\* C10 amended: the estimate is (Cv)t.v / (vt.v), with v the ones vector
\* multiplied by C nine times and Cv one multiplication further; the
\* penalty is the gain k times the square root of the estimate.
C10_RayleighQuotient ==
    (Returned("EigenvalueRegularizer.__call__") /\ Len(call.x.shape) = 2) =>
        /\ ret.sqrt_of.den = Inner(NineTimes(call.x), NineTimes(call.x))
        /\ ret.sqrt_of.num = Inner(TenTimes(call.x), NineTimes(call.x))
        /\ ret.gain = call.self.k

C10_Witness ==
    /\ Returned("EigenvalueRegularizer.__call__")
    /\ call.x.shape = <<1, 2>>
    /\ ret.kind = "eigen_scalar"
    /\ ret.sqrt_of.den > 0
    /\ ret.sqrt_of.num > ret.sqrt_of.den

====
